---- MODULE Spec2Model ----
(***************************************************************************)
(* Verification model of twists.py: the OctahedralComplex class (vertex    *)
(* model, Ray-Dutt and Bailar twists, face coordinates) and the two Flask  *)
(* handlers that drive it on the process-wide instance complex_obj.        *)
(*                                                                         *)
(* Reals are fixed-point integers: a coordinate v stands for v / Scale, a  *)
(* progression p for p / PScale, and an effective angle t (the product     *)
(* angle * progression) for t / PScale degrees.  A numpy array is a record *)
(* [dtype, data]; an int64 array holds whole multiples of Scale only.      *)
(***************************************************************************)
EXTENDS Integers, Sequences, FiniteSets, TLC

\* Resolution of a float64 coordinate and of a float progression.
Scale == 10000
PScale == 1000

----------------------------------------------------------------------------
(* Fixed-point arithmetic                                                  *)

\* F(v) with v evaluated once, before F uses it.
With(v, F(_)) == CHOOSE r \in {F(x) : x \in {v}} : TRUE

Abs(a) == IF a < 0 THEN -a ELSE a
Sgn(a) == IF a < 0 THEN -1 ELSE 1

\* a * b of two Scale-d reals, rounded to the nearest representable value.
Mul(a, b) == Sgn(a) * Sgn(b) * ((Abs(a) * Abs(b) + Scale \div 2) \div Scale)

\* np.deg2rad of a reduced angle r (in 1/PScale degrees, 0 <= r <= 45 deg),
\* as a Scale-d number of radians.
Deg2Rad(r) == (r * 31416 + 90 * PScale) \div (180 * PScale)

\* sin and cos on [0, pi/4] by their Taylor polynomials.
SinSmall(x) ==
    LET x2 == Mul(x, x)
        x3 == Mul(x2, x)
        x5 == Mul(x3, x2)
        x7 == Mul(x5, x2)
    IN  x - (x3 + 3) \div 6 + (x5 + 60) \div 120 - (x7 + 2520) \div 5040

CosSmall(x) ==
    LET x2 == Mul(x, x)
        x4 == Mul(x2, x2)
        x6 == Mul(x4, x2)
    IN  Scale - (x2 + 1) \div 2 + (x4 + 12) \div 24 - (x6 + 360) \div 720

\* <<sin, cos>> of an angle t given in 1/PScale degrees (any sign, any size):
\* reduction to the first octant, then the polynomials.  At whole multiples
\* of 90 degrees the values are exactly 0 and +-1.
SinCos(t) ==
    LET u == t % (360 * PScale)
        q == u \div (90 * PScale)
        r == u % (90 * PScale)
        s == IF r <= 45 * PScale THEN SinSmall(Deg2Rad(r))
                                 ELSE CosSmall(Deg2Rad(90 * PScale - r))
        c == IF r <= 45 * PScale THEN CosSmall(Deg2Rad(r))
                                 ELSE SinSmall(Deg2Rad(90 * PScale - r))
    IN  CASE q = 0 -> << s,  c>>
          [] q = 1 -> << c, -s>>
          [] q = 2 -> <<-s, -c>>
          [] q = 3 -> <<-c,  s>>

----------------------------------------------------------------------------
(* numpy arrays and scipy rotations                                        *)

Vec(x, y, z) == <<x * Scale, y * Scale, z * Scale>>

NDArray(dtype, data) == [dtype |-> dtype, data |-> data]

\* A float written into an int64 array is truncated toward zero; a float64
\* array keeps it.
Cast(dtype, v) ==
    IF dtype = "int64" THEN Sgn(v) * ((Abs(v) \div Scale) * Scale) ELSE v

CastVec(dtype, p) == <<Cast(dtype, p[1]), Cast(dtype, p[2]), Cast(dtype, p[3])>>

\* ndarray.copy(): a new array of the same dtype and contents.
Copy(a) == NDArray(a.dtype, a.data)

\* ndarray.tolist(): the nested list of the array's values.
ToList(a) == a.data

\* Python indices are 0-based, sequences here 1-based.
InRange(a, idxs) == \A k \in 1..Len(idxs) : idxs[k] < Len(a.data)

\* a[idxs] with a list of indices: the selected rows, in the order of idxs.
Take(a, idxs) == NDArray(a.dtype, [k \in 1..Len(idxs) |-> a.data[idxs[k] + 1]])

\* a[idxs] = values: each selected row replaced, cast to a's dtype.
Put(a, idxs, values) ==
    NDArray(a.dtype,
            [n \in 1..Len(a.data) |->
                IF \E k \in 1..Len(idxs) : idxs[k] + 1 = n
                THEN CastVec(a.dtype,
                         values.data[CHOOSE k \in 1..Len(idxs) : idxs[k] + 1 = n])
                ELSE a.data[n]])

\* a[:, c].tolist() for column c (0-based).
Column(a, c) == [n \in 1..Len(a.data) |-> a.data[n][c + 1]]

\* Rotation.from_rotvec(theta * axis) for a unit axis: the rotation by theta
\* about the axis (right-hand rule), as its matrix (Rodrigues' formula).
FromRotvec(theta, axis) ==
    With(SinCos(theta), LAMBDA sc :
        LET s == sc[1]
            c == sc[2]
            K == << <<0, -axis[3], axis[2]>>,
                    <<axis[3], 0, -axis[1]>>,
                    <<-axis[2], axis[1], 0>> >>
        IN  [i \in 1..3 |-> [j \in 1..3 |->
                (IF i = j THEN c ELSE 0)
                + Mul(Scale - c, Mul(axis[i], axis[j]))
                + Mul(s, K[i][j])]])

\* Rotation.apply(points): every row multiplied by the matrix; a new float64
\* array of the same length and order.
Apply(rotation, points) ==
    NDArray("float64",
            [n \in 1..Len(points.data) |->
                [i \in 1..3 |->
                    Mul(rotation[i][1], points.data[n][1])
                    + Mul(rotation[i][2], points.data[n][2])
                    + Mul(rotation[i][3], points.data[n][3])]])

----------------------------------------------------------------------------
(* class OctahedralComplex                                                 *)

\* Python's None, shaped like an array so that it compares with one.
None == [dtype |-> "NoneType", data |-> <<>>]

\* The default ligand positions: +x, -x, +y, -y, +z, -z, as Python ints.
DefaultPositions ==
    NDArray("int64", << Vec(1, 0, 0), Vec(-1, 0, 0), Vec(0, 1, 0),
                        Vec(0, -1, 0), Vec(0, 0, 1), Vec(0, 0, -1) >>)

\* The outcome of a method call: the object afterwards, whether the call
\* returned ("ok") or raised, and the value returned.
Outcome(self, status, ret) == [self |-> self, status |-> status, ret |-> ret]

\* __init__: np.array of whatever is given, and a copy of it; the number of
\* points is not looked at.
OctahedralComplex(initial_positions) ==
    LET given == IF initial_positions = None THEN DefaultPositions
                                             ELSE initial_positions
    IN  Outcome([initial_positions |-> Copy(given), positions |-> Copy(given)],
                "ok", None)

\* axis = [1, 1, 1] / norm([1, 1, 1]) = 0.57735 each.
C3Axis == <<5774, 5774, 5774>>
ZAxis == <<0, 0, Scale>>

\* Variant: the rotation applied to the current positions, so that twists add up.
ray_dutt_twist_cumulative(self, angle, progression) ==
    LET theta == angle * progression
    IN  With(FromRotvec(theta, C3Axis), LAMBDA rotation :
        With(Apply(rotation, self.positions), LAMBDA positions :
            Outcome([self EXCEPT !.positions = positions], "ok", positions)))

ray_dutt_twist(self, angle, progression) ==
    LET theta == angle * progression
    IN  With(FromRotvec(theta, C3Axis), LAMBDA rotation :
        With(Apply(rotation, self.initial_positions), LAMBDA positions :
            Outcome([self EXCEPT !.positions = positions], "ok", positions)))

top_indices == <<0, 2, 4>>
bottom_indices == <<1, 3, 5>>

\* positions[indices] = rotation.apply(initial_positions[indices])
PutRotated(positions, indices, rotation, initial_positions) ==
    With(Apply(rotation, Take(initial_positions, indices)), LAMBDA rotated :
        Put(positions, indices, rotated))

\* self.positions = self.initial_positions.copy()
bailar_copy(self) == [self EXCEPT !.positions = Copy(self.initial_positions)]

\* self.positions[indices] = rotation.apply(self.initial_positions[indices]),
\* for the rotation by theta about z.
bailar_rotate(self, indices, theta) ==
    With(FromRotvec(theta, ZAxis), LAMBDA rotation :
        [self EXCEPT !.positions =
            PutRotated(self.positions, indices, rotation, self.initial_positions)])

\* An index beyond the array raises IndexError at the statement that uses it;
\* the assignments before it have happened.
bailar_twist(self, angle, progression) ==
    LET theta == angle * progression
    IN  With(bailar_copy(self), LAMBDA copied :
            IF ~InRange(self.initial_positions, top_indices)
            THEN Outcome(copied, "IndexError", None)
            ELSE
        With(bailar_rotate(copied, top_indices, theta), LAMBDA withTop :
            IF ~InRange(self.initial_positions, bottom_indices)
            THEN Outcome(withTop, "IndexError", None)
            ELSE
        With(bailar_rotate(withTop, bottom_indices, -theta), LAMBDA withBottom :
            Outcome(withBottom, "ok", withBottom.positions))))

faces == << <<0, 2, 4>>, <<0, 2, 5>>, <<0, 3, 4>>, <<0, 3, 5>>,
            <<1, 2, 4>>, <<1, 2, 5>>, <<1, 3, 4>>, <<1, 3, 5>> >>

\* Variant: the face's vertices taken from the reference configuration.
face_vertices_reference(self, face) == Take(self.initial_positions, face)

\* vertices = self.positions[face]
face_vertices(self, face) == Take(self.positions, face)

\* One entry of plane_coords: the face's three vertices, by coordinate.
Plane(self, face) ==
    With(face_vertices(self, face), LAMBDA vertices :
        [x |-> Column(vertices, 0), y |-> Column(vertices, 1),
         z |-> Column(vertices, 2)])

generate_planes(self) ==
    IF \E f \in 1..Len(faces) : ~InRange(self.positions, faces[f])
    THEN Outcome(self, "IndexError", None)
    ELSE Outcome(self, "ok", [f \in 1..Len(faces) |-> Plane(self, faces[f])])

----------------------------------------------------------------------------
(* The Flask handlers, on the process-wide instance                        *)

initial_data_edges ==
    << <<0, 1>>, <<2, 3>>, <<4, 5>>,
       <<0, 2>>, <<0, 4>>, <<1, 3>>, <<1, 5>>, <<2, 4>>, <<2, 5>>, <<3, 4>>, <<3, 5>> >>

\* Variant: the fourth and fifth pairs in the other order.
animate_twist_edges_reordered ==
    << <<0, 1>>, <<2, 3>>, <<4, 5>>,
       <<0, 4>>, <<0, 2>>, <<1, 3>>, <<1, 5>>, <<2, 4>>, <<2, 5>>, <<3, 4>>, <<3, 5>> >>

animate_twist_edges ==
    << <<0, 1>>, <<2, 3>>, <<4, 5>>,
       <<0, 2>>, <<0, 4>>, <<1, 3>>, <<1, 5>>, <<2, 4>>, <<2, 5>>, <<3, 4>>, <<3, 5>> >>

Frame(positions, edges, planes) ==
    [positions |-> positions, edges |-> edges, planes |-> planes]

\* What a handler did: the instance afterwards, the HTTP status, the body,
\* and the method calls it made on the instance, in order.
Handled(self, status, body, log) ==
    [self |-> self, status |-> status, body |-> body, calls |-> log]

\* Variant: the reference configuration sent instead of the current one.
initial_data_reference(cx) ==
    With(ToList(cx.initial_positions), LAMBDA positions :
    With(generate_planes([cx EXCEPT !.positions = cx.initial_positions]),
         LAMBDA planes :
        Handled(cx, 200,
                Frame(positions, initial_data_edges, planes.ret),
                <<[method |-> "generate_planes", angle |-> 0, progression |-> 0]>>)))

initial_data(cx) ==
    With(ToList(cx.positions), LAMBDA positions :
    With(generate_planes(cx), LAMBDA planes :
        Handled(planes.self, 200,
                Frame(positions, initial_data_edges, planes.ret),
                <<[method |-> "generate_planes", angle |-> 0, progression |-> 0]>>)))

\* request.json.get(key, default)
Get(json, key, default) == IF key \in DOMAIN json THEN json[key] ELSE default

DefaultTwistType == "ray_dutt"
DefaultAngle == 45
DefaultFrames == 30

\* i / num_frames for i >= 0 and num_frames > 0, to the nearest 1 / PScale.
TrueDiv(i, num_frames) == (2 * i * PScale + num_frames) \div (2 * num_frames)

\* Variant: only the literal "bailar" selects the Bailar twist.
TwistMethodBailarOnly(twist_type) ==
    IF twist_type = "bailar" THEN "bailar_twist" ELSE "ray_dutt_twist"

\* The method the loop body calls for a twist_type.
TwistMethod(twist_type) ==
    IF twist_type = "ray_dutt" THEN "ray_dutt_twist" ELSE "bailar_twist"

\* Variant: range(num_frames), which stops one short of progression 1.
RangeLenShort(num_frames) == IF num_frames > 0 THEN num_frames ELSE 0

\* len(range(num_frames + 1)): how many times the loop body runs.
RangeLen(num_frames) == IF num_frames + 1 > 0 THEN num_frames + 1 ELSE 0

\* The loop body for index i, from the handler's state so far (the instance,
\* the frames appended and the calls made).  i / 0 raises: Flask answers 500.
loop_body(st, twist_type, max_angle, num_frames, i) ==
    IF num_frames = 0
    THEN Handled(st.self, 500, "ZeroDivisionError", st.calls)
    ELSE LET progression == TrueDiv(i, num_frames)
             method == TwistMethod(twist_type)
         IN  With(IF method = "ray_dutt_twist"
                  THEN ray_dutt_twist(st.self, max_angle, progression)
                  ELSE bailar_twist(st.self, max_angle, progression), LAMBDA twist :
             With(ToList(twist.ret), LAMBDA positions :
             With(generate_planes(twist.self), LAMBDA planes :
                 Handled(planes.self, 200,
                         Append(st.body,
                                Frame(positions, animate_twist_edges, planes.ret)),
                         st.calls \o
                             <<[method |-> method, angle |-> max_angle,
                                progression |-> progression],
                               [method |-> "generate_planes", angle |-> 0,
                                progression |-> 0]>>))))

\* The handler's state after the first n runs of the loop body; an exception
\* ends the loop.
RECURSIVE animate_loop(_, _, _, _, _)
animate_loop(cx, twist_type, max_angle, num_frames, n) ==
    IF n <= 0
    THEN Handled(cx, 200, <<>>, <<>>)
    ELSE With(animate_loop(cx, twist_type, max_angle, num_frames, n - 1),
              LAMBDA st :
                  IF st.status # 200 THEN st
                  ELSE loop_body(st, twist_type, max_angle, num_frames, n - 1))

animate_twist(cx, json) ==
    LET twist_type == Get(json, "twist_type", DefaultTwistType)
        max_angle == Get(json, "angle", DefaultAngle)
        num_frames == Get(json, "frames", DefaultFrames)
    IN  animate_loop(cx, twist_type, max_angle, num_frames, RangeLen(num_frames))

----------------------------------------------------------------------------
(* State                                                                   *)

VARIABLES
    complex_obj,    \* the process-wide instance (line 97)
    request,        \* the request last handled: its route and its JSON body
    response,       \* the answer to it: HTTP status and body
    calls,          \* the method calls that handler made on complex_obj
    pre,            \* complex_obj as that handler found it
    last_frame,     \* last frame of the latest animate_twist answer that has one
    edge_lists,     \* every edge list sent so far
    obj,            \* an OctahedralComplex built by a caller of the class
    ctor,           \* how obj was built: the argument and the outcome
    call,           \* the method last called on obj, and its outcome
    heap,           \* the arrays alive while handlers run in threads, by identity
    current,        \* the identity of the array complex_obj.positions refers to
    th              \* each handler thread: where it is, and its local variables

appVars == <<complex_obj, request, response, calls, pre, last_frame, edge_lists>>
classVars == <<obj, ctor, call>>
threadVars == <<heap, current, th>>
vars == <<appVars, classVars, threadVars>>

MaxFrames == 2
MaxProgSteps == 3

\* Application inputs: the JSON bodies posted to /animate_twist.
TwistTypes == {"ray_dutt", "bailar", "trigonal"}
Angles == {0, 45, 60, 90}
FrameCounts == (-MaxFrames)..MaxFrames

EmptyJson == [k \in {} |-> None]

Jsons ==
    {[twist_type |-> t, angle |-> a, frames |-> n] :
        t \in TwistTypes, a \in Angles, n \in FrameCounts}
    \cup {EmptyJson, [twist_type |-> "bailar"], [angle |-> 90, frames |-> 1]}

\* Class inputs: constructor arguments and twist arguments.
SixFloat ==
    NDArray("float64", << <<15000, 0, 0>>, <<-15000, 0, 0>>, <<0, 12500, 0>>,
                          <<0, -12500, 0>>, <<0, 0, 10000>>, <<0, 0, -10000>> >>)
FiveInt == NDArray("int64", SubSeq(DefaultPositions.data, 1, 5))
SevenFloat == NDArray("float64", Append(SixFloat.data, <<5000, 5000, 5000>>))

CtorArgs == {None, SixFloat, FiveInt, SevenFloat}
ClassAngles == {0, 45, 90, -60}
Progressions == {k * (PScale \div 2) : k \in 0..MaxProgSteps}

----------------------------------------------------------------------------
(* The application, one request at a time                                  *)

NoRequest == [route |-> "none", json |-> EmptyJson]
NoResponse == [status |-> 0, body |-> None]
NoCall == [op |-> "none", angle |-> 0, progression |-> 0, pre |-> None,
           status |-> "none", ret |-> None]

AppInit ==
    /\ complex_obj = OctahedralComplex(None).self
    /\ request = NoRequest
    /\ response = NoResponse
    /\ calls = <<>>
    /\ pre = complex_obj
    /\ last_frame = None
    /\ edge_lists = {}

ClassIdle ==
    /\ obj = None
    /\ ctor = None
    /\ call = NoCall

ThreadsIdle ==
    /\ heap = <<>>
    /\ current = 0
    /\ th = <<>>

InitialData ==
    \E h \in {initial_data(complex_obj)} :
        /\ request' = [route |-> "initial_data", json |-> EmptyJson]
        /\ pre' = complex_obj
        /\ complex_obj' = h.self
        /\ response' = [status |-> h.status, body |-> h.body]
        /\ calls' = h.calls
        /\ edge_lists' = edge_lists \cup {h.body.edges}
        /\ UNCHANGED <<last_frame, classVars, threadVars>>

AnimateTwist(json) ==
    \E h \in {animate_twist(complex_obj, json)} :
    LET sent == h.status = 200 /\ Len(h.body) > 0
    IN  /\ request' = [route |-> "animate_twist", json |-> json]
        /\ pre' = complex_obj
        /\ complex_obj' = h.self
        /\ response' = [status |-> h.status, body |-> h.body]
        /\ calls' = h.calls
        /\ last_frame' = IF sent THEN h.body[Len(h.body)] ELSE last_frame
        /\ edge_lists' = IF sent
                         THEN edge_lists \cup {h.body[i].edges : i \in 1..Len(h.body)}
                         ELSE edge_lists
        /\ UNCHANGED <<classVars, threadVars>>

Init == AppInit /\ ClassIdle /\ ThreadsIdle

Next ==
    \/ InitialData
    \/ \E json \in Jsons : AnimateTwist(json)

Spec == Init /\ [][Next]_vars

----------------------------------------------------------------------------
(* The class, used directly                                                *)

AppIdle ==
    /\ complex_obj = None
    /\ request = NoRequest
    /\ response = NoResponse
    /\ calls = <<>>
    /\ pre = None
    /\ last_frame = None
    /\ edge_lists = {}

\* A caller constructs the object; the methods are called on it afterwards.
Construct(arg) ==
    /\ ctor = None
    /\ \E made \in {OctahedralComplex(arg)} :
          /\ obj' = made.self
          /\ ctor' = [arg |-> arg, status |-> made.status]
    /\ UNCHANGED <<call, appVars, threadVars>>

Called(op, angle, progression, result) ==
    /\ ctor # None
    /\ \E out \in {result} :
          /\ obj' = out.self
          /\ call' = [op |-> op, angle |-> angle, progression |-> progression,
                      pre |-> obj, status |-> out.status, ret |-> out.ret]
    /\ UNCHANGED <<ctor, appVars, threadVars>>

CallRayDutt(angle, progression) ==
    Called("ray_dutt_twist", angle, progression,
           ray_dutt_twist(obj, angle, progression))

CallBailar(angle, progression) ==
    Called("bailar_twist", angle, progression,
           bailar_twist(obj, angle, progression))

CallGeneratePlanes ==
    Called("generate_planes", 0, 0, generate_planes(obj))

InitClass == AppIdle /\ ClassIdle /\ ThreadsIdle

NextClass ==
    \/ \E arg \in CtorArgs : Construct(arg)
    \/ \E a \in ClassAngles, p \in Progressions : CallRayDutt(a, p)
    \/ \E a \in ClassAngles, p \in Progressions : CallBailar(a, p)
    \/ CallGeneratePlanes

SpecClass == InitClass /\ [][NextClass]_vars

----------------------------------------------------------------------------
(* The application with two animate_twist requests served by two threads   *)
(* on complex_obj.  A step is one access to the shared instance together   *)
(* with the thread-local work between it and the next access.  Arrays are  *)
(* objects: complex_obj.positions and each thread's local `positions` are  *)
(* references into the heap, and an array none of them refers to is gone.  *)

Threads == {1, 2}
ArrIds == 1..(Cardinality(Threads) + 2)
Unbound == 0

\* The two requests in flight: a Ray-Dutt sequence posted to thread 1 and a
\* Bailar sequence posted to thread 2, in either order of arrival.
ThreadType(t) == IF t = 1 THEN "ray_dutt" ELSE "bailar"
ThreadAngles == {90}
ThreadFrameCounts == {1}
ThreadJsons(t) ==
    {[twist_type |-> ThreadType(t), angle |-> a, frames |-> n] :
        a \in ThreadAngles, n \in ThreadFrameCounts}

IdleThread ==
    [pc |-> "idle", twist_type |-> "", max_angle |-> 0, num_frames |-> 0,
     i |-> 0, positions |-> Unbound, poslist |-> <<>>, face |-> 0,
     plane_coords |-> <<>>, frames |-> <<>>, overlapped |-> FALSE]

Live(cur, thr) == ({cur} \cup {thr[t].positions : t \in Threads}) \ {Unbound}

\* The identity given to a newly made array.
NewId == CHOOSE id \in ArrIds :
            /\ id \notin Live(current, th)
            /\ \A j \in ArrIds : j \notin Live(current, th) => id <= j

\* The heap with the arrays nothing refers to any more released.
Collect(h, cur, thr) == [id \in ArrIds |-> IF id \in Live(cur, thr) THEN h[id] ELSE None]

\* complex_obj as a thread finds it.
SharedSelf == [initial_positions |-> DefaultPositions, positions |-> heap[current]]

\* Where the loop of animate_twist goes for index i.
LoopHead(twist_type, num_frames, i) ==
    IF i >= RangeLen(num_frames) THEN "done"
    ELSE IF num_frames = 0 THEN "raised"
    ELSE IF TwistMethod(twist_type) = "ray_dutt_twist" THEN "line66" ELSE "line85"

Progression(t) == TrueDiv(th[t].i, th[t].num_frames)
Theta(t) == th[t].max_angle * Progression(t)

ThreadsInit ==
    /\ heap = [id \in ArrIds |-> IF id = 1 THEN OctahedralComplex(None).self.positions
                                           ELSE None]
    /\ current = 1
    /\ th = [t \in Threads |-> IdleThread]

InFlight(t) == th[t].pc \notin {"idle", "done", "raised"}

\* A request arrives and its handler starts; it overlaps the other handler if
\* that one is in flight.
Start(t, json) ==
    /\ th[t].pc = "idle"
    /\ LET twist_type == Get(json, "twist_type", DefaultTwistType)
           max_angle == Get(json, "angle", DefaultAngle)
           num_frames == Get(json, "frames", DefaultFrames)
           overlap == \E o \in Threads \ {t} : InFlight(o)
       IN  th' = [o \in Threads |->
                     IF o = t
                     THEN [th[t] EXCEPT !.pc = LoopHead(twist_type, num_frames, 0),
                                        !.twist_type = twist_type,
                                        !.max_angle = max_angle,
                                        !.num_frames = num_frames,
                                        !.overlapped = overlap]
                     ELSE [th[o] EXCEPT !.overlapped = @ \/ overlap]]
    /\ UNCHANGED <<heap, current, appVars, classVars>>

\* self.positions = <a new array>: the reference is redirected.
Assign(t, array, pc) ==
    \E id \in {NewId} :
        /\ current' = id
        /\ th' = [th EXCEPT ![t].pc = pc]
        /\ heap' = Collect([heap EXCEPT ![id] = array], id, th')
        /\ UNCHANGED <<appVars, classVars>>

\* Line 66 of ray_dutt_twist.
Line66(t) ==
    /\ th[t].pc = "line66"
    /\ Assign(t, ray_dutt_twist(SharedSelf, th[t].max_angle, Progression(t)).self.positions,
              "return")

\* Line 85 of bailar_twist.
Line85(t) ==
    /\ th[t].pc = "line85"
    /\ Assign(t, bailar_copy(SharedSelf).positions, "line88")

\* Lines 88 and 89 of bailar_twist: a write into the array self.positions
\* refers to at that moment.  (Here and at line 42 the reference is read and
\* the array accessed in one step: between two handlers, reading the
\* reference earlier than the access yields no further outcome.)
Line88(t) ==
    /\ th[t].pc = "line88"
    /\ heap' = [heap EXCEPT ![current] =
                    bailar_rotate(SharedSelf, top_indices, Theta(t)).positions]
    /\ th' = [th EXCEPT ![t].pc = "line89"]
    /\ UNCHANGED <<current, appVars, classVars>>

Line89(t) ==
    /\ th[t].pc = "line89"
    /\ heap' = [heap EXCEPT ![current] =
                    bailar_rotate(SharedSelf, bottom_indices, -Theta(t)).positions]
    /\ th' = [th EXCEPT ![t].pc = "return"]
    /\ UNCHANGED <<current, appVars, classVars>>

\* return self.positions (lines 68 and 91), bound to the handler's `positions`.
Return(t) ==
    /\ th[t].pc = "return"
    /\ th' = [th EXCEPT ![t].pc = "line133", ![t].positions = current]
    /\ heap' = Collect(heap, current, th')
    /\ UNCHANGED <<current, appVars, classVars>>

\* positions.tolist() (line 133).
Line133(t) ==
    /\ th[t].pc = "line133"
    /\ th' = [th EXCEPT ![t].pc = "line42",
                        ![t].poslist = ToList(heap[th[t].positions]),
                        ![t].face = 1,
                        ![t].plane_coords = <<>>]
    /\ UNCHANGED <<heap, current, appVars, classVars>>

\* One turn of the loop of generate_planes (lines 41-47); after the last face
\* the frame is appended (lines 132-139) and the handler's loop goes on.
Line42(t) ==
    /\ th[t].pc = "line42"
    /\ \E planes \in {Append(th[t].plane_coords,
                             Plane(SharedSelf, faces[th[t].face]))} :
          IF th[t].face < Len(faces)
          THEN th' = [th EXCEPT ![t].face = @ + 1, ![t].plane_coords = planes]
          ELSE th' = [th EXCEPT
                        ![t].frames = Append(@, Frame(th[t].poslist,
                                                      animate_twist_edges, planes)),
                        ![t].i = @ + 1,
                        ![t].pc = LoopHead(th[t].twist_type, th[t].num_frames,
                                           th[t].i + 1),
                        ![t].poslist = <<>>,
                        ![t].face = 0,
                        ![t].plane_coords = <<>>]
    /\ UNCHANGED <<heap, current, appVars, classVars>>

InitThreads == AppIdle /\ ClassIdle /\ ThreadsInit

NextThreads ==
    \E t \in Threads :
        \/ \E json \in ThreadJsons(t) : Start(t, json)
        \/ Line66(t)
        \/ Line85(t)
        \/ Line88(t)
        \/ Line89(t)
        \/ Return(t)
        \/ Line133(t)
        \/ Line42(t)

SpecThreads == InitThreads /\ [][NextThreads]_vars

----------------------------------------------------------------------------
(* Properties of the application (Spec)                                    *)

IsAnimate == request.route = "animate_twist"
IsInitialData == request.route = "initial_data"
ReqType == Get(request.json, "twist_type", DefaultTwistType)
ReqAngle == Get(request.json, "angle", DefaultAngle)
ReqFrames == Get(request.json, "frames", DefaultFrames)
TwistMethods == {"ray_dutt_twist", "bailar_twist"}

\* The named twist method on a given object.
TwistBy(method, cx, angle, progression) ==
    IF method = "ray_dutt_twist" THEN ray_dutt_twist(cx, angle, progression)
                                 ELSE bailar_twist(cx, angle, progression)

\* The k-th face (k = 0..7) by octant: x sign, then y sign, then z sign.
OctantFace(k) == <<k \div 4, 2 + ((k \div 2) % 2), 4 + (k % 2)>>

\* The coordinates of a face's three vertices in a list of positions.
PlaneOfList(list, face) ==
    [x |-> [j \in 1..3 |-> list[face[j] + 1][1]],
     y |-> [j \in 1..3 |-> list[face[j] + 1][2]],
     z |-> [j \in 1..3 |-> list[face[j] + 1][3]]]

PlanesMatch(frame) ==
    /\ Len(frame.planes) = 8
    /\ \A k \in 1..8 : frame.planes[k] = PlaneOfList(frame.positions, OctantFace(k - 1))

\* C1: for a frame count N >= 1, animate_twist answers with exactly N + 1
\* frames; frame i is the requested twist of the reference configuration at
\* progression i / N, in order; frame 0 is the reference configuration and
\* frame N is the twist at progression 1, the full angle.
C1_SequenceBoundary ==
    (IsAnimate /\ ReqFrames >= 1) =>
        LET N == ReqFrames
        IN  /\ response.status = 200
            /\ Len(response.body) = N + 1
            /\ Len(calls) = 2 * (N + 1)
            /\ \A i \in 0..N :
                  LET c == calls[2 * i + 1]
                  IN  /\ c.method \in TwistMethods
                      /\ c.angle = ReqAngle
                      /\ 2 * Abs(c.progression * N - i * PScale) <= N
                      /\ response.body[i + 1].positions =
                            ToList(TwistBy(c.method, pre, ReqAngle, c.progression).ret)
            /\ response.body[1].positions = ToList(pre.initial_positions)
            /\ calls[2 * N + 1].progression = PScale
            /\ response.body[N + 1].positions =
                  ToList(TwistBy(calls[1].method, pre, ReqAngle, PScale).ret)

\* A sequence of at least three frames whose first, second and last differ.
C1_Witness ==
    /\ IsAnimate
    /\ ReqFrames >= 2
    /\ response.status = 200
    /\ Len(response.body) = ReqFrames + 1
    /\ response.body[1].positions # response.body[2].positions
    /\ response.body[2].positions # response.body[ReqFrames + 1].positions

\* C5: animate_twist with a frame count below 1 (zero or negative) fails; it
\* never answers with a frame sequence, not even an empty one.
C5_RejectsNonPositiveFrames ==
    (IsAnimate /\ ReqFrames < 1) => response.status # 200

\* C7: every frame is computed by ray_dutt_twist exactly when the twist type
\* is the literal "ray_dutt"; for every other value, recognised or not, by
\* bailar_twist, and the unrecognised value raises nothing.
C7_Dispatch ==
    IsAnimate =>
        /\ ReqFrames >= 1 => response.status = 200
        /\ \A k \in 1..Len(calls) :
              calls[k].method \in TwistMethods =>
                  /\ calls[k].method = "ray_dutt_twist" <=> ReqType = "ray_dutt"
                  /\ calls[k].method = "bailar_twist" <=> ReqType # "ray_dutt"
        /\ response.status = 200 =>
              \A i \in 1..Len(response.body) :
                  response.body[i].positions =
                      ToList((IF ReqType = "ray_dutt"
                              THEN ray_dutt_twist(pre, ReqAngle,
                                                  calls[2 * i - 1].progression)
                              ELSE bailar_twist(pre, ReqAngle,
                                                calls[2 * i - 1].progression)).ret)

\* An unrecognised twist type answered with frames that are the Bailar
\* twist's and not the Ray-Dutt twist's.
C7_Witness ==
    /\ IsAnimate
    /\ ReqType \notin {"ray_dutt", "bailar"}
    /\ response.status = 200
    /\ Len(response.body) >= 2
    /\ LET n == Len(response.body)
       IN  /\ response.body[n].positions =
                 ToList(bailar_twist(pre, ReqAngle, PScale).ret)
           /\ response.body[n].positions #
                 ToList(ray_dutt_twist(pre, ReqAngle, PScale).ret)

Antipodal(pair) == pair[1] \div 2 = pair[2] \div 2

EdgeTopology(e) ==
    /\ Len(e) = 11
    /\ \A k \in 1..11 : Len(e[k]) = 2 /\ e[k][1] \in 0..5 /\ e[k][2] \in 0..5
    /\ \A k, l \in 1..11 : k # l => {e[k][1], e[k][2]} # {e[l][1], e[l][2]}
    /\ SubSeq(e, 1, 3) = << <<0, 1>>, <<2, 3>>, <<4, 5>> >>
    /\ \A k \in 4..11 : ~Antipodal(e[k])

SentFrames ==
    IF IsAnimate /\ response.status = 200
    THEN {response.body[i] : i \in 1..Len(response.body)}
    ELSE IF IsInitialData THEN {response.body} ELSE {}

\* C8: every frame of every animate_twist answer and every initial_data
\* answer carries one and the same edge list: 11 pairs in one order, the 3
\* antipodal pairs 0-1, 2-3, 4-5 and 8 pairs of non-antipodal vertices; and
\* its planes are its positions at the same 8 face triples in the same order.
C8_TopologyInvariance ==
    /\ Cardinality(edge_lists) <= 1
    /\ \A e \in edge_lists : EdgeTopology(e)
    /\ \A f \in SentFrames : f.edges \in edge_lists /\ PlanesMatch(f)

\* initial_data answered after a sequence was sent, with the sequence's edge
\* list and with coordinates that are no longer the default ones.
C8_Witness ==
    /\ IsInitialData
    /\ last_frame # None
    /\ response.body.edges = last_frame.edges
    /\ response.body.positions # ToList(DefaultPositions)

----------------------------------------------------------------------------
(* Properties of the class (SpecClass)                                     *)

IsTwist == call.op \in TwistMethods
Fresh == OctahedralComplex(ctor.arg).self

\* C2: whatever twists were called before on the object, a twist call gives
\* what the same call gives on a freshly constructed object with the same
\* initial positions: same outcome, same returned vertex set, same current.
C2_NonCumulative ==
    IsTwist =>
        LET expected == TwistBy(call.op, Fresh, call.angle, call.progression)
        IN  /\ call.status = expected.status
            /\ call.ret = expected.ret
            /\ obj.positions = expected.self.positions

\* A twist that returned on an object whose current positions an earlier
\* twist had already moved, and that moved them again.
C2_Witness ==
    /\ IsTwist
    /\ call.status = "ok"
    /\ call.pre.positions.data # call.pre.initial_positions.data
    /\ call.ret.data # call.pre.positions.data
    /\ call.ret.data # call.pre.initial_positions.data

RotatedAboutZ(i, theta) ==
    Apply(FromRotvec(theta, ZAxis), Take(DefaultPositions, <<i>>)).data[1]

\* C4: on the default configuration bailar_twist stores and returns, at
\* indices 0, 2, 4 the initial coordinates rotated by +theta about z and at
\* indices 1, 3, 5 the initial coordinates rotated by -theta about z, for
\* every theta = angle * progression, non-integer coordinates included.
C4_BailarRotatesGroups ==
    (call.op = "bailar_twist" /\ ctor.arg = None) =>
        LET theta == call.angle * call.progression
        IN  /\ call.status = "ok"
            /\ obj.positions = call.ret
            /\ \A i \in {0, 2, 4} : call.ret.data[i + 1] = RotatedAboutZ(i, theta)
            /\ \A i \in {1, 3, 5} : call.ret.data[i + 1] = RotatedAboutZ(i, -theta)

\* C6: construction from a vertex set that has not exactly six points fails,
\* and no object whose current vertex set has another size exists.
C6_RejectsWrongCount ==
    ctor # None =>
        /\ (ctor.arg # None /\ Len(ctor.arg.data) # 6) => ctor.status # "ok"
        /\ Len(obj.positions.data) = 6

----------------------------------------------------------------------------
(* Properties of the threaded application (SpecThreads)                    *)

\* The complex a handler alone on the instance leaves after its twist for
\* frame index j.
TwistedBy(t, j) ==
    TwistBy(TwistMethod(th[t].twist_type), OctahedralComplex(None).self,
            th[t].max_angle, TrueDiv(j, th[t].num_frames)).self

\* C10: a handler that no other handler overlapped has emitted only frames
\* whose planes[k] are the frame's own positions at the k-th face triple.
\* (That two overlapping handlers can emit a frame whose planes come from the
\* other handler's vertex set is the state C10_Witness describes.)
C10_SingleCallFramesConsistent ==
    \A t \in Threads :
        ~th[t].overlapped =>
            \A k \in 1..Len(th[t].frames) : PlanesMatch(th[t].frames[k])

\* Two overlapping handlers, one of which has emitted a frame whose positions
\* are its own twist's and whose planes are those of the other handler's
\* twist, and so do not match the positions.
C10_Witness ==
    \E t \in Threads, o \in Threads :
        /\ t # o
        /\ th[t].overlapped
        /\ \E k \in 1..Len(th[t].frames) :
              LET f == th[t].frames[k]
              IN  /\ ~PlanesMatch(f)
                  /\ f.positions = ToList(TwistedBy(t, k - 1).positions)
                  /\ \E j \in 0..th[o].num_frames :
                        f.planes = generate_planes(TwistedBy(o, j)).ret

====
